---- MODULE Spec2Model ----
(***************************************************************************)
(* Model of src/core/src/parser.rs: the parse-coordination layer of the    *)
(* tree-sitter binding.  The grammar engine (tree_sitter::Parser) is an    *)
(* external collaborator; its behaviour is modelled at the call sites, as  *)
(* the doc comments of parser.rs describe it (ABI check on attach, resume  *)
(* after a timeout unless reset, validation of included ranges).           *)
(***************************************************************************)
EXTENDS Integers, Sequences, FiniteSets

\* ---------------------------------------------------------------- bounds
MaxTrees == 2        \* tree handles that can exist
MaxReaders == 1      \* shared accesses other code may hold on one handle
MaxCalls == 2        \* calls of INPUT-FUNCTION within one parse_chunks
MaxPos == 1          \* engine byte offsets explored (and bytes of an input)

\* Language handles: abiOk tells whether the engine accepts the grammar's
\* ABI version (the version numbers themselves are engine internals).
Languages ==
    { [id |-> 1, abiOk |-> TRUE], [id |-> 2, abiOk |-> TRUE], [id |-> 3, abiOk |-> FALSE] }

\* Timeouts the host sets, in microseconds (0: no timeout).
Timeouts == {0, 1}

\* Payloads of the errors the host's INPUT-FUNCTION signals.
SignalPayloads == {1}

Handles == 1..MaxTrees
NoTree == 0
NoLanguage == 0
NoResume == -1

VARIABLES
    parser,      \* the Parser: language, timeout, included ranges, interrupted state
    trees,       \* handle -> Shared<Tree>: RefCell borrow flag and the tree
    call,        \* the parse_chunks call in progress
    last,        \* the last step: operation, arguments, what it returned
    hist,        \* history: last event that touched the parser's interrupted state
    conflicted   \* history: handle on which the latest parse_chunks met a borrow conflict

vars == <<parser, trees, call, last, hist, conflicted>>

\* ------------------------------------------------------------- helpers
Max(a, b) == IF a >= b THEN a ELSE b

NoError == [kind |-> "none", payload |-> 0]
SignalError(p) == [kind |-> "signal", payload |-> p]
\* v.into_rust::<String>() fails when INPUT-FUNCTION returns a non-string
WrongTypeError == [kind |-> "wrong_type_argument", payload |-> 0]

\* A step of the program: the operation, the handle it was given, the kind
\* and payload of what it returned, the tree it returned, and (history) the
\* errors INPUT-FUNCTION raised, where the engine started, what preceded
\* (hist.evt) and where that had left off, what the RANGES vector was, the
\* position at which the engine asked for a fragment (req: byte, row, column)
\* and the arguments INPUT-FUNCTION was called with (args), and the span of the
\* root of the tree a parse returned (span: start and end byte, 0-based).
Step(op, h, kind, payload) ==
    [op |-> op, h |-> h, kind |-> kind, payload |-> payload, tree |-> NoTree,
     raised |-> <<>>, ncalls |-> 0, start |-> 0, after |-> "", leftOff |-> 0, cls |-> "",
     req |-> <<>>, args |-> <<>>, span |-> <<>>]

\* Shared<T> = Rc<RefCell<T>>: the borrow flag counts shared borrows, -1 is
\* an exclusive borrow.  sh and ex tell what other code holds.
shared(t) == [live |-> TRUE, borrow |-> 0, sh |-> 0, ex |-> FALSE, tree |-> t]
Unused == [live |-> FALSE, borrow |-> 0, sh |-> 0, ex |-> FALSE, tree |-> [edited |-> FALSE]]

\* RefCell::try_borrow succeeds unless an exclusive borrow is outstanding;
\* try_borrow_mut succeeds only when nothing is outstanding.
\* (as it would be with try_borrow_mut, and with no check at all)
TryBorrowUnlessAny(b) == b = 0
TryBorrowAlways(b) == TRUE
TryBorrowOk(b) == b >= 0
TryBorrowMutOk(b) == b = 0

Live == {h \in Handles : trees[h].live}
Free == {h \in Handles : ~trees[h].live}
\* (as it would be if a parse handed out the first handle again)
NewHandleFirst == CHOOSE h \in Handles : \A g \in Handles : h <= g
NewHandle == CHOOSE h \in Free : \A g \in Free : h <= g

IdleCall == [pc |-> "idle", old |-> NoTree, input_error |-> NoError, ncalls |-> 0,
             pos |-> 0, frag |-> 0, eof |-> FALSE, raised |-> <<>>, retry |-> FALSE]

Init ==
    /\ parser = [language |-> NoLanguage, timeout |-> 0, included |-> <<>>,
                 resume |-> NoResume]
    /\ trees = [h \in Handles |-> Unused]
    /\ call = IdleCall
    /\ last = Step("make_parser", NoTree, "ok", 0)
    /\ hist = [evt |-> "fresh", pos |-> 0]
    /\ conflicted = NoTree

\* ------------------------------------------------- configuration operations
\* Parser::set_language: checks the grammar's ABI version and attaches the
\* language only when it is compatible.
\* (as it would be if a language, once attached, were never replaced)
EngineSetLanguageOnce(p, l) ==
    IF l.abiOk /\ p.language = NoLanguage THEN [p EXCEPT !.language = l.id] ELSE p
\* (as it would be if the language were attached before the check)
EngineSetLanguageAlways(p, l) == [p EXCEPT !.language = l.id]
EngineSetLanguage(p, l) == IF l.abiOk THEN [p EXCEPT !.language = l.id] ELSE p

set_language(l) ==
    /\ call.pc = "idle"
    /\ parser' = EngineSetLanguage(parser, l)
    /\ last' = Step("set_language", NoTree, IF l.abiOk THEN "ok" ELSE "lang_abi_error", l.id)
    /\ UNCHANGED <<trees, call, hist, conflicted>>

\* Lines 33-37: the language PARSER uses, NoLanguage for none.
language(p) == p.language

_set_timeout_micros(d) ==
    /\ call.pc = "idle"
    /\ parser' = [parser EXCEPT !.timeout = d]
    /\ last' = Step("_set_timeout_micros", NoTree, "ok", d)
    /\ UNCHANGED <<trees, call, hist, conflicted>>

\* Parser::reset: drops the state an interrupted parse left behind.
\* (as it would be if the call to reset were missing)
EngineResetNothing(p) == p
EngineReset(p) == [p EXCEPT !.resume = NoResume]

_reset_parser ==
    /\ call.pc = "idle"
    /\ parser' = EngineReset(parser)
    /\ last' = Step("_reset_parser", NoTree, "ok", 0)
    /\ hist' = [evt |-> "reset", pos |-> parser.resume]
    /\ UNCHANGED <<trees, call, conflicted>>

\* ------------------------------------------------------- included ranges
\* An element of the RANGES vector: a Range in the host's 1-based byte
\* positions, or a value that is no Range.
Rng(a, b) == [ok |-> TRUE, s |-> a, e |-> b]
NotARange == [ok |-> FALSE, s |-> 0, e |-> 0]

\* The vectors the host passes: none, disjoint spans, overlapping spans, a
\* span that ends before it starts, spans out of order, and vectors holding
\* a value that is no Range.
RangeVectors ==
    { <<>>, <<Rng(2, 3), Rng(4, 5)>>, <<Rng(1, 3), Rng(2, 4)>>, <<Rng(2, 1)>>,
      <<Rng(3, 4), Rng(1, 2)>>, <<Rng(1, 2), NotARange>>, <<NotARange>> }

\* Range -> tree_sitter::Range: byte positions become 0-based.
RangeInto(r) == <<r.s - 1, r.e - 1>>

\* The loop of lines 141-144: index of the first element that is no Range
\* (0 when every element converts).
RECURSIVE FirstUnconvertible(_, _)
FirstUnconvertible(v, i) ==
    IF i > Len(v) THEN 0
    ELSE IF ~v[i].ok THEN i
    ELSE FirstUnconvertible(v, i + 1)

Included(v) == [i \in 1..Len(v) |-> RangeInto(v[i])]

\* Parser::set_included_ranges: each range must start at or after the end of
\* the one before it and must not end before it starts; the error carries the
\* 0-based index of the first range that does not.
RECURSIVE FirstInvalidRange(_, _, _)
FirstInvalidRange(rs, i, prevEnd) ==
    IF i > Len(rs) THEN -1
    ELSE IF rs[i][1] < prevEnd \/ rs[i][2] < rs[i][1] THEN i - 1
    ELSE FirstInvalidRange(rs, i + 1, rs[i][2])

\* (as it would be if the ranges were stored before they are validated)
EngineSetIncludedRangesAlways(p, rs) == [p EXCEPT !.included = rs]
EngineSetIncludedRanges(p, rs) ==
    IF FirstInvalidRange(rs, 1, 0) = -1 THEN [p EXCEPT !.included = rs] ELSE p

\* What the vector is, told without running the conversion: some element is
\* no Range; or two spans overlap, are out of order, or one ends before it
\* starts; or the vector is a valid set of spans.
Classify(v) ==
    IF \E i \in 1..Len(v) : ~v[i].ok THEN "unconvertible"
    ELSE IF \/ \E i \in 1..Len(v) : v[i].e < v[i].s
            \/ \E i \in 1..Len(v), j \in 1..Len(v) : i < j /\ v[j].s < v[i].e
         THEN "invalid"
         ELSE "valid"

set_included_ranges(v) ==
    /\ call.pc = "idle"
    /\ LET bad == FirstUnconvertible(v, 1)
           rs == Included(v)
           inv == FirstInvalidRange(rs, 1, 0)
       IN IF bad # 0
          THEN /\ parser' = parser
               /\ last' = [Step("set_included_ranges", NoTree, "wrong_type_argument", bad - 1)
                              EXCEPT !.cls = Classify(v)]
          ELSE /\ parser' = EngineSetIncludedRanges(parser, rs)
               /\ last' = [Step("set_included_ranges", NoTree,
                                IF inv = -1 THEN "ok" ELSE "invalid_ranges",
                                IF inv = -1 THEN 0 ELSE inv)
                              EXCEPT !.cls = Classify(v)]
    /\ UNCHANGED <<trees, call, hist, conflicted>>

\* ------------------------------------------------------------ the engine
\* Parser::parse / parse_with: a parse interrupted by the timeout leaves its
\* state in the parser, and the next parse resumes there (lines 104-107).
\* (as it would be if every parse were preceded by a reset)
EngineStartFromBeginning(p) == 0
EngineStart(p) == IF p.resume # NoResume THEN p.resume ELSE 0

\* The engine gives up (returns None) when no language is attached, or when
\* the timeout (if one is set) expires.
EngineMayReturnNone(p) == p.language = NoLanguage \/ p.timeout > 0

\* A parse that runs to its end leaves nothing to resume.
\* (as it would be if a finished parse also dropped the timeout)
EngineFinishClearsTimeout(p) == [p EXCEPT !.resume = NoResume, !.timeout = 0]
EngineFinish(p) == [p EXCEPT !.resume = NoResume]

\* History of a step in which the engine takes up work.
Started(s) ==
    IF parser.language = NoLanguage THEN s
    ELSE [s EXCEPT !.start = EngineStart(parser), !.after = hist.evt, !.leftOff = hist.pos]

\* ------------------------------------------------------------ parse_chunks
InputErrors == { SignalError(p) : p \in SignalPayloads } \cup { WrongTypeError }

\* The error of an exclusive access that was refused, when INPUT-FUNCTION
\* does not handle it.
BorrowConflictError == [kind |-> "borrow_conflict", payload |-> 0]

\* What one call of INPUT-FUNCTION yields: a fragment of n bytes, or an error.
Outcomes ==
    { [err |-> NoError, n |-> n] : n \in 0..1 }
        \cup { [err |-> e, n |-> 0] : e \in InputErrors \cup {BorrowConflictError} }

\* INPUT-FUNCTION is host code and may, while it runs, try to edit a tree g
\* through its handle (NoTree: it does not try): the exclusive access is
\* granted only when no access to g is outstanding. A refused attempt changes
\* nothing; INPUT-FUNCTION either handles the refusal and goes on to return
\* whatever it returns, or lets it escape as its error.
EditAttempt(ts, g) ==
    IF g = NoTree THEN "none"
    ELSE IF TryBorrowMutOk(ts[g].borrow) THEN "ok"
    ELSE "borrow_conflict"

\* The points (0-based row and byte column) the engine can be at when it is
\* at byte offset b: on the first row, where the column is the offset, or on
\* the second row of a document whose first row is a lone newline.
Points(b) ==
    { [row |-> 0, column |-> b] } \cup
        { [row |-> 1, column |-> b - 1] : x \in { y \in {b} : y >= 1 } }

\* usize -> BytePos, and Point's accessors: the host counts byte positions
\* and lines from 1, byte columns from 0 (lines 51-56).
BytePosFrom(byte) == byte + 1
LineNumber(point) == point.row + 1
ByteColumn(point) == point.column

\* Lines 78-80: the arguments the closure calls INPUT-FUNCTION with.
\* (as it would be if the engine's offsets were passed on unconverted)
InputArgsUnconverted(byte, point) == <<byte, point.row, point.column>>
InputArgs(byte, point) == <<BytePosFrom(byte), LineNumber(point), ByteColumn(point)>>

\* The closure of lines 77-86, called by the engine at offset c.pos.
\* (as it would be with unwrap() in the closure: the failure leaves the engine)
InputClosureUnwrap(c, out) ==
    IF out.err = NoError
    THEN [c EXCEPT !.ncalls = @ + 1, !.frag = out.n, !.eof = (out.n = 0), !.pos = @ + out.n]
    ELSE [c EXCEPT !.ncalls = @ + 1, !.pc = "idle", !.raised = Append(@, out.err)]
\* (as it would be if a failure were recorded without ending the input)
InputClosureKeepsAsking(c, out) ==
    IF out.err = NoError
    THEN [c EXCEPT !.ncalls = @ + 1, !.frag = out.n, !.eof = (out.n = 0), !.pos = @ + out.n]
    ELSE [c EXCEPT !.ncalls = @ + 1, !.input_error = out.err, !.raised = Append(@, out.err)]
\* (as it would be if a failing INPUT-FUNCTION were called a second time)
InputClosureRetry(c, out) ==
    IF out.err = NoError
    THEN [c EXCEPT !.ncalls = @ + 1, !.frag = out.n, !.eof = (out.n = 0), !.pos = @ + out.n]
    ELSE [c EXCEPT !.ncalls = @ + 2, !.frag = 0, !.eof = TRUE,
                   !.input_error = out.err, !.raised = Append(@, out.err)]
InputClosure(c, out) ==
    IF out.err = NoError
    THEN [c EXCEPT !.ncalls = @ + 1, !.frag = out.n, !.eof = (out.n = 0), !.pos = @ + out.n]
    ELSE [c EXCEPT !.ncalls = @ + 1, !.frag = 0, !.eof = TRUE,
                   !.input_error = out.err, !.raised = Append(@, out.err)]

\* Dropping the Ref taken on OLD-TREE at line 66 (end of scope, line 93).
\* (as it would be if the Ref were leaked instead of dropped)
ReleaseOldNever(ts, old) == ts
ReleaseOld(ts, old) ==
    IF old = NoTree THEN ts ELSE [ts EXCEPT ![old].borrow = @ - 1]

\* Lines 64-76 and the entry into parser.parse_with (line 88).
parse_chunks_begin(old) ==
    /\ call.pc = "idle"
    /\ Free # {}
    /\ old \in Live \cup {NoTree}
    /\ IF old # NoTree /\ ~TryBorrowOk(trees[old].borrow)
       THEN /\ last' = Step("parse_chunks", old, "borrow_conflict", 0)
            /\ conflicted' = old
            /\ UNCHANGED <<parser, trees, call, hist>>
       ELSE /\ trees' = IF old = NoTree THEN trees ELSE [trees EXCEPT ![old].borrow = @ + 1]
            /\ call' = [IdleCall EXCEPT !.pc = "engine", !.old = old,
                                        !.pos = EngineStart(parser),
                                        !.retry = (old # NoTree /\ conflicted = old)]
            /\ conflicted' = NoTree
            /\ last' = Started(Step("parse_chunks", old, "pending", 0))
            /\ UNCHANGED <<parser, hist>>

\* The engine asks for the next fragment (lines 77-86).
input_function ==
    /\ call.pc = "engine"
    /\ parser.language # NoLanguage
    /\ call.ncalls < MaxCalls
    /\ \E out \in Outcomes, point \in Points(call.pos) :
          /\ call.pos + out.n <= MaxPos
          /\ out.err = BorrowConflictError =>
                EditAttempt(trees, call.old) = "borrow_conflict"
          /\ call' = InputClosure(call, out)
          /\ trees' = IF out.err = BorrowConflictError \/ EditAttempt(trees, call.old) # "ok"
                      THEN trees
                      ELSE [trees EXCEPT ![call.old].tree.edited = TRUE]
          /\ last' = [Step("input_function", call.old, out.err.kind, out.err.payload)
                         EXCEPT !.req = <<call.pos, point.row, point.column>>,
                                !.args = InputArgs(call.pos, point)]
    /\ UNCHANGED <<parser, hist, conflicted>>

\* Lines 89-92: what parse_chunks returns once the engine has produced a tree.
ChunksResult(c, h) ==
    IF c.input_error = NoError THEN [kind |-> "ok", payload |-> 0, tree |-> h]
    ELSE [kind |-> c.input_error.kind, payload |-> c.input_error.payload, tree |-> NoTree]

Returned(c, r) ==
    [Step("parse_chunks_return", c.old, r.kind, r.payload)
        EXCEPT !.tree = r.tree, !.raised = c.raised, !.ncalls = c.ncalls]

\* parser.parse_with returns (line 88); unwrap; lines 89-93.
parse_chunks_return ==
    /\ call.pc = "engine"
    /\ call' = IdleCall
    /\ \/ /\ parser.language # NoLanguage        \* Some(tree)
          /\ call.eof
          /\ parser' = EngineFinish(parser)
          /\ hist' = [evt |-> "completed", pos |-> 0]
          /\ last' = Returned(call, ChunksResult(call, NewHandle))
          /\ trees' = IF last'.tree = NoTree THEN ReleaseOld(trees, call.old)
                      ELSE [ReleaseOld(trees, call.old) EXCEPT
                                ![NewHandle] = shared([edited |-> FALSE])]
       \/ /\ EngineMayReturnNone(parser)         \* None: unwrap panics
          /\ last' = Returned(call, [kind |-> "panic", payload |-> 0, tree |-> NoTree])
          /\ trees' = ReleaseOld(trees, call.old)
          /\ IF parser.language = NoLanguage
             THEN UNCHANGED <<parser, hist>>
             ELSE /\ parser' = [parser EXCEPT !.resume = call.pos]
                  /\ hist' = [evt |-> "aborted", pos |-> call.pos]
    /\ UNCHANGED conflicted

\* ------------------------------------------------------------ parse_string
Min(a, b) == IF a < b THEN a ELSE b

\* The span of the root of the tree the engine builds for an input of len
\* bytes: by default the entire document; with included ranges only the
\* portion from the start of the first range to the end of the last one
\* (lines 131-134), in the positions of the document as a whole.
\* (as it would be if the tree left out the first byte of the input)
RootSpanSkipsFirst(p, len) == <<Min(1, len), len>>
RootSpan(p, len) ==
    IF p.included = <<>> THEN <<0, len>>
    ELSE <<Min(p.included[1][1], len), Min(p.included[Len(p.included)][2], len)>>

parse_string(len) ==
    /\ call.pc = "idle"
    /\ Free # {}
    /\ \/ /\ parser.language # NoLanguage        \* a tree
          /\ parser' = EngineFinish(parser)
          /\ hist' = [evt |-> "completed", pos |-> 0]
          /\ last' = Started([Step("parse_string", NoTree, "ok", len) EXCEPT
                                  !.tree = NewHandle, !.span = RootSpan(parser, len)])
          /\ trees' = [trees EXCEPT ![NewHandle] = shared([edited |-> FALSE])]
       \/ /\ parser.language = NoLanguage        \* None: unwrap panics
          /\ last' = Step("parse_string", NoTree, "panic", len)
          /\ UNCHANGED <<parser, trees, hist>>
       \/ /\ parser.language # NoLanguage /\ parser.timeout > 0
          /\ \E p \in EngineStart(parser)..Max(EngineStart(parser), len) :
                /\ parser' = [parser EXCEPT !.resume = p]
                /\ hist' = [evt |-> "aborted", pos |-> p]
          /\ last' = Started(Step("parse_string", NoTree, "panic", len))
          /\ UNCHANGED trees
    /\ UNCHANGED <<call, conflicted>>

\* ------------------------------------------------ other users of a handle
\* Code elsewhere in the host that reads or edits a tree through its handle.
access(h) ==
    /\ call.pc = "idle"
    /\ h \in Live
    /\ IF TryBorrowOk(trees[h].borrow)
       THEN /\ trees[h].sh < MaxReaders
            /\ trees' = [trees EXCEPT ![h].borrow = @ + 1, ![h].sh = @ + 1]
            /\ last' = Step("access", h, "ok", 0)
       ELSE /\ trees' = trees
            /\ last' = Step("access", h, "borrow_conflict", 0)
    /\ UNCHANGED <<parser, call, hist, conflicted>>

release(h) ==
    /\ call.pc = "idle"
    /\ h \in Live
    /\ trees[h].sh > 0
    /\ trees' = [trees EXCEPT ![h].borrow = @ - 1, ![h].sh = @ - 1]
    /\ last' = Step("release", h, "ok", 0)
    /\ UNCHANGED <<parser, call, hist, conflicted>>

access_mut(h) ==
    /\ call.pc = "idle"
    /\ h \in Live
    /\ IF TryBorrowMutOk(trees[h].borrow)
       THEN /\ trees' = [trees EXCEPT ![h].borrow = -1, ![h].ex = TRUE]
            /\ last' = Step("access_mut", h, "ok", 0)
       ELSE /\ trees' = trees
            /\ last' = Step("access_mut", h, "borrow_conflict", 0)
    /\ UNCHANGED <<parser, call, hist, conflicted>>

release_mut(h) ==
    /\ call.pc = "idle"
    /\ h \in Live
    /\ trees[h].ex
    /\ \E edit \in BOOLEAN :
          trees' = [trees EXCEPT ![h].borrow = 0, ![h].ex = FALSE,
                                 ![h].tree.edited = @ \/ edit]
    /\ last' = Step("release_mut", h, "ok", 0)
    /\ UNCHANGED <<parser, call, hist, conflicted>>

\* ------------------------------------------------------------------ spec
Next ==
    \/ \E l \in Languages : set_language(l)
    \/ \E d \in Timeouts : _set_timeout_micros(d)
    \/ _reset_parser
    \/ \E v \in RangeVectors : set_included_ranges(v)
    \/ \E old \in Handles \cup {NoTree} : parse_chunks_begin(old)
    \/ input_function
    \/ parse_chunks_return
    \/ \E len \in 0..MaxPos : parse_string(len)
    \/ \E h \in Handles : access(h)
    \/ \E h \in Handles : release(h)
    \/ \E h \in Handles : access_mut(h)
    \/ \E h \in Handles : release_mut(h)

Spec == Init /\ [][Next]_vars

\* The program run with an engine that asks for no further fragment once it
\* has been handed an empty one, and that, being a synchronous loop inside
\* parser.parse_with (line 88), goes on to return when it can.
input_function_until_eof == ~call.eof /\ input_function

NextLive ==
    \/ \E l \in Languages : set_language(l)
    \/ \E d \in Timeouts : _set_timeout_micros(d)
    \/ _reset_parser
    \/ \E v \in RangeVectors : set_included_ranges(v)
    \/ \E old \in Handles \cup {NoTree} : parse_chunks_begin(old)
    \/ input_function_until_eof
    \/ parse_chunks_return
    \/ \E len \in 0..MaxPos : parse_string(len)
    \/ \E h \in Handles : access(h)
    \/ \E h \in Handles : release(h)
    \/ \E h \in Handles : access_mut(h)
    \/ \E h \in Handles : release_mut(h)

SpecLive == Init /\ [][NextLive]_vars /\ WF_vars(parse_chunks_return)

\* ---------------------------------------------------------------- claims
ParseOps == {"parse_chunks", "parse_chunks_return", "parse_string"}
Config(p) == <<p.language, p.timeout, p.included>>
Returns(s, e) == s.kind = e.kind /\ s.payload = e.payload /\ s.tree = NoTree

\* C1: whichever call of INPUT-FUNCTION raised an error, parse_chunks
\* returns exactly that error and no tree.
C1_EveryInputErrorIsTheResult ==
    last.op = "parse_chunks_return" =>
        \A i \in 1..Len(last.raised) : Returns(last, last.raised[i])

\* C2: a failing call of INPUT-FUNCTION does not leave the engine: the
\* closure stores the error in input_error and hands the engine an empty
\* fragment, the engine goes on, and an input error reaches the caller only
\* in the step in which parse_chunks returns, after the engine has.
C2_DeferThenRethrow ==
    /\ (last.op = "input_function" /\ last.kind # "none") =>
          /\ call.pc = "engine"
          /\ call.frag = 0 /\ call.eof
          /\ call.input_error = [kind |-> last.kind, payload |-> last.payload]
    /\ (last.op = "parse_chunks_return" /\ last.kind \in {"signal", "wrong_type_argument"}) =>
          /\ call.pc = "idle"
          /\ last.raised # <<>>
          /\ Returns(last, last.raised[Len(last.raised)])

C2_Witness ==
    /\ last.op = "input_function" /\ last.kind = "signal"
    /\ call.ncalls = 2 /\ call.pos > 0

\* C3: every failure of parse_string and parse_chunks reaches the caller as
\* an error of a kind of its own, and every error INPUT-FUNCTION raised is
\* the one the caller gets.
TypedKinds == {"ok", "pending", "signal", "wrong_type_argument", "borrow_conflict"}
C3_EveryFailureIsATypedError ==
    last.op \in ParseOps =>
        /\ last.kind \in TypedKinds
        /\ { last.raised[i] : i \in 1..Len(last.raised) }
              \subseteq { [kind |-> last.kind, payload |-> last.payload] }

\* C4 (as stated): parse_chunks called with an OLD-TREE on which any other
\* access is outstanding fails with a borrow conflict, without calling
\* INPUT-FUNCTION or the engine and without changing tree or parser.
C4_AnyOutstandingAccessConflicts ==
    [][\A h \in Handles :
          (last'.op = "parse_chunks" /\ last'.h = h /\ trees[h].borrow # 0) =>
              /\ last'.kind = "borrow_conflict"
              /\ call' = call /\ trees' = trees /\ parser' = parser]_vars

\* C4 (amended): it fails so exactly when an exclusive access to OLD-TREE is
\* outstanding; outstanding shared accesses do not make it fail.
C4_ExclusiveAccessConflicts ==
    [][\A h \in Handles :
          (last'.op = "parse_chunks" /\ last'.h = h) =>
              IF trees[h].borrow < 0
              THEN /\ last'.kind = "borrow_conflict"
                   /\ call' = call /\ call.pc = "idle"
                   /\ trees' = trees /\ parser' = parser
              ELSE last'.kind = "pending"]_vars

C4_Witness ==
    /\ last.op = "parse_chunks" /\ last.kind = "borrow_conflict"
    /\ last.h # NoTree /\ trees[last.h].ex
    /\ call.pc = "idle" /\ parser.language # NoLanguage

\* C5: exclusive access to a handle is refused while another exclusive access
\* is outstanding and granted once that is released; a parse_chunks that met
\* a borrow conflict on OLD-TREE takes its access when retried after the
\* exclusive access is released.
C5_ReleaseThenRetry ==
    [][\A h \in Handles :
          /\ (last'.op = "access_mut" /\ last'.h = h /\ trees[h].ex) =>
                (last'.kind = "borrow_conflict" /\ trees' = trees)
          /\ (last'.op = "access_mut" /\ last'.h = h /\ ~trees[h].ex /\ trees[h].sh = 0) =>
                (last'.kind = "ok" /\ trees'[h].ex)
          /\ (last'.op = "parse_chunks" /\ last'.h = h /\ conflicted = h /\ ~trees[h].ex) =>
                (last'.kind = "pending" /\ call'.pc = "engine" /\ call'.retry)]_vars

C5_Witness ==
    /\ call.pc = "engine" /\ call.retry
    /\ last.op = "parse_chunks" /\ last.kind = "pending"

\* C6: a set_language that fails with the ABI error leaves language, timeout
\* and included ranges as they were, and a language of an incompatible ABI
\* always fails so.
C6_FailedAttachKeepsConfig ==
    [][last'.op = "set_language" =>
          /\ (\E l \in Languages : l.id = last'.payload /\ ~l.abiOk) =>
                last'.kind = "lang_abi_error"
          /\ last'.kind = "lang_abi_error" => parser' = parser]_vars

C6_Witness ==
    /\ last.op = "set_language" /\ last.kind = "lang_abi_error"
    /\ parser.language = 1 /\ parser.timeout > 0 /\ parser.included # <<>>

\* C7: set_included_ranges with overlapping, out-of-order or reversed spans
\* is rejected with invalid_ranges, one with an element that is no Range is
\* rejected too, and in both cases the included ranges stay as they were.
C7_InvalidRangesKeepConfig ==
    [][last'.op = "set_included_ranges" =>
          /\ last'.cls = "invalid" => (last'.kind = "invalid_ranges" /\ parser' = parser)
          /\ last'.cls = "unconvertible" =>
                (last'.kind = "wrong_type_argument" /\ parser' = parser)
          /\ last'.cls = "valid" => last'.kind = "ok"]_vars

C7_Witness ==
    /\ last.op = "set_included_ranges" /\ last.kind = "invalid_ranges"
    /\ parser.included # <<>>

\* C8: a parse that follows _reset_parser starts at the beginning of the
\* document, whatever interrupted parse came before the reset.
C8_ResetThenParseStartsAtZero ==
    (last.op \in ParseOps /\ last.after = "reset") =>
        /\ last.start = 0
        /\ last.op = "parse_chunks" => call.pos = 0

C8_Witness ==
    /\ last.op \in ParseOps /\ last.after = "reset"
    /\ last.leftOff > 0 /\ last.start = 0

\* C9: a parse that follows a parse interrupted by the timeout, with no
\* _reset_parser in between, starts where the interrupted one left off.
C9_ResumeByDefault ==
    (last.op \in ParseOps /\ last.after = "aborted") =>
        /\ last.start = last.leftOff
        /\ last.op = "parse_chunks" => call.pos = last.leftOff

C9_Witness ==
    /\ last.op \in ParseOps /\ last.after = "aborted"
    /\ last.leftOff > 0 /\ last.start = last.leftOff

\* C10: no step of parse_string or parse_chunks changes language, timeout or
\* included ranges; each of them changes only in a step of its own setter (or
\* of _reset_parser).
C10_ConfigPersistsAcrossParses ==
    [][/\ last'.op \in ParseOps \cup {"input_function"} => Config(parser') = Config(parser)
       /\ parser'.language # parser.language => last'.op \in {"set_language", "_reset_parser"}
       /\ parser'.timeout # parser.timeout =>
             last'.op \in {"_set_timeout_micros", "_reset_parser"}
       /\ parser'.included # parser.included =>
             last'.op \in {"set_included_ranges", "_reset_parser"}]_vars

C10_Witness ==
    /\ last.op = "parse_chunks_return" /\ last.kind = "signal"
    /\ parser.language # NoLanguage /\ parser.timeout > 0 /\ parser.included # <<>>

\* C11: for a fragment request of the engine at byte offset b, row r and
\* byte column c (all 0-based), INPUT-FUNCTION is called with BYTEPOS b + 1,
\* LINE-NUMBER r + 1 and BYTE-COLUMN c.
C11_PositionsAtTheBoundary ==
    last.op = "input_function" =>
        /\ Len(last.req) = 3 /\ Len(last.args) = 3
        /\ last.args[1] = last.req[1] + 1
        /\ last.args[2] = last.req[2] + 1
        /\ last.args[3] = last.req[3]

C11_Witness ==
    /\ last.op = "input_function"
    /\ last.req = <<1, 1, 0>> /\ last.args = <<2, 2, 0>>

\* C12 (as stated): parse_string returns, for every input and after any
\* sequence of configuration operations, a tree whose root spans the entire
\* input.
C12_RootCoversInputAlways ==
    (last.op = "parse_string" /\ last.kind = "ok") => last.span = <<0, last.payload>>

\* C12 (amended): parse_string returns a tree whose root spans the entire
\* input whenever the parser includes entire documents, that is, no included
\* ranges are set (the default, or after setting an empty vector).
C12_RootCoversInputByDefault ==
    (last.op = "parse_string" /\ last.kind = "ok" /\ parser.included = <<>>) =>
        last.span = <<0, last.payload>>

C12_Witness ==
    /\ last.op = "parse_string" /\ last.kind = "ok" /\ last.payload = 1
    /\ parser.included = <<>> /\ parser.timeout > 0 /\ last.span = <<0, 1>>
    /\ hist.evt = "completed"

\* C13: language(parser) is none from make_parser on; a successful
\* set_language makes it the language just set; and no other step (a parse,
\* a reset, a timeout or range change, a failed attach, a use of a tree)
\* changes it. So it is none until the first successful set_language and
\* afterwards always the language of the most recent successful one.
C13_LanguageIsTheLastAttached ==
    /\ language(parser) = NoLanguage
    /\ [][IF last'.op = "set_language" /\ last'.kind = "ok"
          THEN language(parser') = last'.payload
          ELSE language(parser') = language(parser)]_vars

C13_Witness ==
    /\ last.op = "set_language" /\ last.kind = "lang_abi_error"
    /\ language(parser) = 2 /\ hist.evt = "aborted"
    /\ parser.included # <<>> /\ parser.timeout > 0

\* C14: every fragment request of the engine is one call of INPUT-FUNCTION,
\* made while parse_chunks is in progress: the request raises the number of
\* calls by exactly one (no retry, no answer from a cache), the number of
\* calls changes in no other way than by starting over at the next
\* parse_chunks, no call is counted while no parse_chunks is in progress, and
\* the byte position handed to INPUT-FUNCTION is never below that of the call
\* before it.
C14_OnceInOrderPerRequest ==
    [][/\ last'.op = "input_function" =>
             /\ call.pc = "engine"
             /\ call'.ncalls = call.ncalls + 1
             /\ Len(call'.raised) <= Len(call.raised) + 1
             /\ last.op = "input_function" => last'.args[1] >= last.args[1]
       /\ last'.op # "input_function" =>
             call'.ncalls \in {call.ncalls, 0}
       /\ call'.pc = "idle" => call'.ncalls = 0]_vars

C14_Witness ==
    /\ last.op = "input_function" /\ last.kind = "signal"
    /\ call.ncalls = 2 /\ last.args[1] = 2 /\ call.pc = "engine"

\* C16: with an engine that stops asking after end-of-input, once
\* INPUT-FUNCTION has returned an empty fragment or has failed during a
\* parse_chunks call, that call eventually returns to the caller.
C16_ParseChunksTerminates ==
    (call.pc = "engine" /\ (call.eof \/ call.raised # <<>>)) ~> (call.pc = "idle")

C16_Witness ==
    /\ last.op = "parse_chunks_return" /\ last.kind = "signal" /\ last.ncalls = 2
    /\ call.pc = "idle" /\ parser.timeout = 0

\* C17: while parse_chunks runs with an OLD-TREE, it holds exactly one shared
\* access on it in addition to those other users hold; and whenever no
\* parse_chunks is in progress (before a call, and after it returned with a
\* tree, with an error or by the panic), the accesses outstanding on every
\* tree are exactly those of the other users, so that an exclusive access is
\* granted when they hold none.
C17_OldTreeAccessIsReleased ==
    /\ (call.pc = "engine" /\ call.old # NoTree) =>
          /\ ~trees[call.old].ex
          /\ trees[call.old].borrow = trees[call.old].sh + 1
    /\ call.pc = "idle" =>
          \A h \in Live :
              /\ trees[h].borrow = (IF trees[h].ex THEN -1 ELSE trees[h].sh)
              /\ (~trees[h].ex /\ trees[h].sh = 0) => TryBorrowMutOk(trees[h].borrow)

C17_Witness ==
    /\ last.op = "parse_chunks_return" /\ last.kind = "panic" /\ last.h # NoTree
    /\ last.ncalls > 0
    /\ trees[last.h].sh = 1 /\ trees[last.h].borrow = 1

\* C18: while parse_chunks runs with OLD-TREE = T, an attempt to edit T is
\* refused with a borrow conflict; no call of INPUT-FUNCTION changes T; and a
\* call in which the refusal escapes INPUT-FUNCTION makes the refusal the
\* deferred input error, the engine going on.
C18_AttemptOnOldTreeIsRefused ==
    [][(call.pc = "engine" /\ call.old # NoTree) =>
          /\ EditAttempt(trees, call.old) = "borrow_conflict"
          /\ last'.op = "input_function" =>
                /\ trees'[call.old] = trees[call.old]
                /\ last'.kind = "borrow_conflict" =>
                      /\ call'.input_error = BorrowConflictError
                      /\ call'.pc = "engine"]_vars

\* C18 (the result): when a refused edit of OLD-TREE escaped INPUT-FUNCTION,
\* parse_chunks returns that borrow conflict.
C18_EscapedConflictIsTheResult ==
    (last.op = "parse_chunks_return" /\
        \E i \in 1..Len(last.raised) : last.raised[i] = BorrowConflictError) =>
            Returns(last, BorrowConflictError)

\* C19: whenever INPUT-FUNCTION has failed during a parse_chunks call, the
\* deferred-error slot holds the error of the most recent failing call,
\* whatever later calls returned.
C19_SlotHoldsLatestError ==
    (call.pc = "engine" /\ call.raised # <<>>) =>
        call.input_error = call.raised[Len(call.raised)]

\* C19 (the result): when INPUT-FUNCTION failed on more than one call,
\* parse_chunks returns the error of the last failing call.
C19_LastErrorIsTheResult ==
    (last.op = "parse_chunks_return" /\ Len(last.raised) > 1) =>
        Returns(last, last.raised[Len(last.raised)])

\* C20: a parse_string or parse_chunks call that returns a tree returns a
\* handle that was not in use before, so one distinct from OLD-TREE and from
\* every handle returned earlier, with no access outstanding on it; and no
\* step of a parse changes the content of a tree that existed before, or
\* drops it.
C20_FreshHandleOldTreesUntouched ==
    [][/\ (last'.op \in {"parse_string", "parse_chunks_return"} /\ last'.kind = "ok") =>
             /\ last'.tree \in Handles
             /\ ~trees[last'.tree].live
             /\ last'.tree # last'.h
             /\ trees'[last'.tree].live
             /\ trees'[last'.tree].borrow = 0
       /\ last'.op \in ParseOps \cup {"input_function"} =>
             \A g \in Live : trees'[g].live /\ trees'[g].tree = trees[g].tree]_vars

C20_Witness ==
    /\ last.op = "parse_chunks_return" /\ last.kind = "ok"
    /\ last.h = 1 /\ last.tree = 2
    /\ trees[1].tree.edited /\ ~trees[2].tree.edited
    /\ trees[1].borrow = 0 /\ trees[2].borrow = 0

====
